---- MODULE Spec2Model ----
(* State-machine model of src/src/editor/svgedit.js: the editor's ready /     *)
(* runCallbacks queue, the load* entry points built on it, setCustomHandlers, *)
(* addExtension, the window 'message' queue and the history buttons that      *)
(* updateContextPanel maintains.                                              *)
EXTENDS Integers, Sequences, FiniteSets, TLC

\* ---------------------------------------------------------------- bounds
MaxCalls == 2
MaxRuns == 2
MaxLoadRuns == 1
MaxLoads == 2
MaxHandlerCalls == 2
MaxExt == 2
MaxMsgs == 3
MaxHist == 3
MaxStd == 2
MaxUser == 1

\* ---------------------------------------------------------------- state
VARIABLES
  isReady,            \* let isReady (svgedit.js:96)
  svgCanvas,          \* let svgCanvas (svgedit.js:95): "undefined" | "canvas"
  uiStringsLoaded,    \* uiStrings has been filled by setLang (svgedit.js:93, 3975)
  calls,              \* every ready(cb) call made so far: cb, its promise, what cb did
  callbacks,          \* const callbacks = [] (svgedit.js:86), as indexes into calls
  runs,               \* the runCallbacks invocations made so far
  canvasOpen,         \* svgCanvas.open
  bound,              \* handlers bound on the canvas for 'saved', 'exported', 'exportedPDF'
  customExportImage,  \* svgedit.js:97
  customExportPDF,    \* svgedit.js:98
  showSaveWarning,    \* editor.showSaveWarning (svgedit.js:65)
  lastAddExt,         \* outcome of the last addExtension call
  extCalls,           \* names handed to svgCanvas.addExtension, in order
  extLoads,           \* the loading of each configured extension (svgedit.js:262, 285)
  initPc,             \* position of init / extAndLocaleFunc
  extensionsAdded,    \* let extensionsAdded (svgedit.js:4172)
  messageQueue,       \* const messageQueue (svgedit.js:4173)
  arrivals,           \* every window 'message' event received, in order
  canvasMessages,     \* every svgCanvas.call('message', ...) made, in order
  lastMsg,            \* what messageListener did with the last message
  mode,               \* svgCanvas.getMode()
  selectedElement,    \* let selectedElement (svgedit.js:647)
  multiselected,      \* let multiselected (svgedit.js:648)
  undoStackSize,      \* undoMgr.getUndoStackSize()
  redoStackSize,      \* undoMgr.getRedoStackSize()
  undoDisabled,       \* $id('tool_undo').disabled
  redoDisabled,       \* $id('tool_redo').disabled
  ucp                 \* how the last step's updateContextPanel call ended

readyVars == <<isReady, calls, callbacks, runs>>
canvasVars == <<svgCanvas, uiStringsLoaded, initPc>>
handlerVars == <<canvasOpen, bound, customExportImage, customExportPDF, showSaveWarning>>
extVars == <<lastAddExt, extCalls, extLoads>>
msgVars == <<extensionsAdded, messageQueue, arrivals, canvasMessages, lastMsg>>
panelVars == <<mode, selectedElement, multiselected, undoStackSize, redoStackSize,
               undoDisabled, redoDisabled, ucp>>
vars == <<isReady, svgCanvas, uiStringsLoaded, calls, callbacks, runs, canvasOpen, bound,
          customExportImage, customExportPDF, showSaveWarning, lastAddExt, extCalls, extLoads,
          initPc, extensionsAdded, messageQueue, arrivals, canvasMessages, lastMsg,
          mode, selectedElement, multiselected, undoStackSize, redoStackSize,
          undoDisabled, redoDisabled, ucp>>

\* ---------------------------------------------------------------- helpers
Range(s) == {s[i] : i \in 1..Len(s)}

HandlerNames == {"open", "save", "exportImage", "exportPDF"}

\* A callback handed to ready, with the bookkeeping of its call.
\*   by               "editor" for the editor's own ready calls, "user" otherwise
\*   kind "cb"        an arbitrary callback; beh says what an invocation does
\*   kind "str"       the callback of loadFromString(str, {noAlert})
\*   kind "url"       the callback of loadFromURL(url, {noAlert})
\*   kind "datauri"   the callback of loadFromDataURI(str, {noAlert})
\*   kind "handlers"  the callback of setCustomHandlers(opts)
NewCall(by, kind, beh, good, noAlert, prefix, opts) ==
  [by |-> by, kind |-> kind, beh |-> beh, good |-> good, noAlert |-> noAlert,
   prefix |-> prefix, opts |-> opts,
   promise |-> "pending",      \* the promise ready returned
   invoked |-> 0,              \* number of times cb has been invoked
   readyAtCall |-> FALSE,      \* isReady when ready was called
   runsAtCall |-> 0,           \* runCallbacks calls made before ready was called
   stringsAtCall |-> FALSE,    \* uiStringsLoaded when ready was called
   alerts |-> 0,               \* alerts shown by cb
   loadRes |-> "none",         \* last answer of svgCanvas.setSvgString to cb
   ajax |-> "none"]            \* state of the last Ajax request cb sent

CallbackOf(by, beh) == NewCall(by, "cb", beh, TRUE, FALSE, "none", {})

UserCalls == Cardinality({i \in 1..Len(calls) : calls[i].by = "user"})

\* The state a callback can read and write while it runs.
World ==
  [calls |-> calls, canvasOpen |-> canvasOpen, bound |-> bound,
   customExportImage |-> customExportImage, customExportPDF |-> customExportPDF,
   showSaveWarning |-> showSaveWarning]

SetWorld(w) ==
  /\ calls' = w.calls
  /\ canvasOpen' = w.canvasOpen
  /\ bound' = w.bound
  /\ customExportImage' = w.customExportImage
  /\ customExportPDF' = w.customExportPDF
  /\ showSaveWarning' = w.showSaveWarning

\* ---------------------------------------------------------------- callbacks
\* loadSvgString (svgedit.js:106): svgCanvas.setSvgString(str) !== false; on a
\* refusal alert unless noAlert, then throw. Without a canvas the member access
\* throws; without the locale strings uiStrings.notification is undefined and
\* the argument of window.alert throws before any alert is shown.
loadSvgString(w, c, good, noAlert) ==
  IF svgCanvas = "undefined" THEN [w |-> w, threw |-> TRUE]
  ELSE IF good THEN [w |-> [w EXCEPT !.calls[c].loadRes = "loaded"], threw |-> FALSE]
  ELSE [w |-> [w EXCEPT !.calls[c].loadRes = "refused",
                        !.calls[c].alerts = IF ~noAlert /\ uiStringsLoaded THEN @ + 1 ELSE @],
        threw |-> TRUE]

\* the callback of loadFromString with its catch block rethrowing always
loadFromStringCbRethrows(w, c) ==
  LET r == loadSvgString(w, c, w.calls[c].good, w.calls[c].noAlert)
  IN  [w |-> r.w, out |-> IF r.threw THEN "rejected" ELSE "fulfilled"]

\* The callback of loadFromString (svgedit.js:4066): an async function, so its
\* result is a promise; the error is rethrown only under noAlert.
loadFromStringCb(w, c) ==
  LET r == loadSvgString(w, c, w.calls[c].good, w.calls[c].noAlert)
  IN  [w |-> r.w, out |-> IF r.threw /\ w.calls[c].noAlert THEN "rejected" ELSE "fulfilled"]

\* The callback of loadFromURL (svgedit.js:4093): a new promise whose executor
\* sends the Ajax request; beforeSend reads uiStrings.notification and calls
\* $.process_cancel, both undefined until the locale is set, and a throw of the
\* executor rejects the promise.
loadFromURLCb(w, c) ==
  IF ~uiStringsLoaded THEN [w |-> w, out |-> "rejected"]
  ELSE [w |-> [w EXCEPT !.calls[c].ajax = "sent"], out |-> "sent"]

\* the callback of loadFromDataURI with the error of loadSvgString swallowed
loadFromDataURICbSwallows(w, c) ==
  IF w.calls[c].prefix = "none" THEN [w |-> w, out |-> "threw"]
  ELSE [w |-> loadSvgString(w, c, w.calls[c].good, w.calls[c].noAlert).w, out |-> "fulfilled"]

\* The callback of loadFromDataURI (svgedit.js:4133): a plain function; pre is
\* null when neither prefix matches and pre.length throws; otherwise the
\* decoded string goes to loadSvgString, whose throw is not caught here.
loadFromDataURICb(w, c) ==
  IF w.calls[c].prefix = "none" THEN [w |-> w, out |-> "threw"]
  ELSE LET r == loadSvgString(w, c, w.calls[c].good, w.calls[c].noAlert)
       IN  [w |-> r.w, out |-> IF r.threw THEN "threw" ELSE "fulfilled"]

\* the callback of setCustomHandlers with the test of opts.save dropped
setCustomHandlersCbAlwaysSave(w, c) ==
  LET opts == w.calls[c].opts
      nc == svgCanvas = "undefined"
      w1 == IF "open" \in opts /\ ~nc THEN [w EXCEPT !.canvasOpen = c] ELSE w
      w2 == [w1 EXCEPT !.showSaveWarning = FALSE, !.bound["saved"] = IF nc THEN @ ELSE c]
      w3 == IF "exportImage" \in opts /\ ~nc
            THEN [w2 EXCEPT !.customExportImage = c, !.bound["exported"] = c] ELSE w2
      w4 == IF "exportPDF" \in opts /\ ~nc
            THEN [w3 EXCEPT !.customExportPDF = c, !.bound["exportedPDF"] = c] ELSE w3
  IN  [w |-> w4, out |-> IF nc THEN "threw" ELSE "fulfilled"]

\* The callback of setCustomHandlers (svgedit.js:180): four ifs in order; each
\* use of svgCanvas throws while there is no canvas, after the assignments that
\* precede it in the same if.
setCustomHandlersCb(w, c) ==
  LET opts == w.calls[c].opts
      nc == svgCanvas = "undefined"
      t1 == "open" \in opts /\ nc
      w1 == IF "open" \in opts /\ ~nc THEN [w EXCEPT !.canvasOpen = c] ELSE w
      d2 == ~t1 /\ "save" \in opts
      w2 == IF d2 THEN [w1 EXCEPT !.showSaveWarning = FALSE,
                                  !.bound["saved"] = IF nc THEN @ ELSE c]
            ELSE w1
      t2 == t1 \/ (d2 /\ nc)
      d3 == ~t2 /\ "exportImage" \in opts
      w3 == IF d3 THEN [w2 EXCEPT !.customExportImage = c,
                                  !.bound["exported"] = IF nc THEN @ ELSE c]
            ELSE w2
      t3 == t2 \/ (d3 /\ nc)
      d4 == ~t3 /\ "exportPDF" \in opts
      w4 == IF d4 THEN [w3 EXCEPT !.customExportPDF = c,
                                  !.bound["exportedPDF"] = IF nc THEN @ ELSE c]
            ELSE w3
      t4 == t3 \/ (d4 /\ nc)
  IN  [w |-> w4, out |-> IF t4 THEN "threw" ELSE "fulfilled"]

\* cb(): what invoking the callback of call c does to the world, and how the
\* invocation ends: "fulfilled" (returned a value or a fulfilled promise),
\* "rejected" (returned a rejected promise), "threw" (synchronously),
\* "pending" (returned a promise that settles later), "sent" (returned the
\* promise of an Ajax request in flight).
invoke(w0, c) ==
  LET w == [w0 EXCEPT !.calls[c].invoked = @ + 1]
      k == w.calls[c]
  IN  CASE k.kind = "cb" ->
             [w |-> w, out |-> CASE k.beh = "ok" -> "fulfilled"
                                 [] k.beh = "throw" -> "threw"
                                 [] OTHER -> "pending"]
        [] k.kind = "str" -> loadFromStringCb(w, c)
        [] k.kind = "url" -> loadFromURLCb(w, c)
        [] k.kind = "datauri" -> loadFromDataURICb(w, c)
        [] OTHER -> setCustomHandlersCb(w, c)

\* resolve / reject of a promise: only a pending promise changes.
settle(p, to) == IF p = "pending" THEN to ELSE p

\* resolve(cb()) inside the executor of ready's promise (svgedit.js:4029): the
\* promise follows cb's result; a throw of the executor rejects it.
resolveWith(w, c, out) ==
  [w EXCEPT !.calls[c].promise =
     CASE out = "fulfilled" -> settle(@, "resolved")
       [] out \in {"rejected", "threw"} -> settle(@, "rejected")
       [] OTHER -> @]

\* callbacks.forEach(([, resolve]) => resolve()) / (([, , reject]) => reject())
settleAll(w, to) ==
  [w EXCEPT !.calls = [i \in 1..Len(w.calls) |->
     IF i \in Range(callbacks) THEN [w.calls[i] EXCEPT !.promise = settle(@, to)]
     ELSE w.calls[i]]]

\* callbacks.map(([cb]) => cb()) (svgedit.js:4043): the callbacks are invoked
\* in queue order; a synchronous throw ends the map.
RECURSIVE mapCallbacks(_, _, _)
mapCallbacks(w, i, res) ==
  IF i > Len(callbacks) THEN [w |-> w, res |-> res, threw |-> FALSE]
  ELSE LET r == invoke(w, callbacks[i])
       IN  IF r.out = "threw" THEN [w |-> r.w, res |-> Append(res, "threw"), threw |-> TRUE]
           ELSE mapCallbacks(r.w, i + 1, Append(res, r.out))

\* ---------------------------------------------------------------- ready / runCallbacks
\* ready without its isReady branch: the callback is always queued
readyAlwaysQueues(c) ==
  LET id == Len(calls) + 1
      rec == [c EXCEPT !.readyAtCall = isReady, !.runsAtCall = Len(runs),
                       !.stringsAtCall = uiStringsLoaded]
  IN  SetWorld([World EXCEPT !.calls = Append(calls, rec)]) /\ callbacks' = Append(callbacks, id)

\* editor.ready (svgedit.js:4026)
ready(c) ==
  LET id == Len(calls) + 1
      rec == [c EXCEPT !.readyAtCall = isReady, !.runsAtCall = Len(runs),
                       !.stringsAtCall = uiStringsLoaded]
      w0 == [World EXCEPT !.calls = Append(calls, rec)]
  IN  IF isReady
      THEN LET r == invoke(w0, id)
           IN  SetWorld(resolveWith(r.w, id, r.out)) /\ UNCHANGED callbacks
      ELSE SetWorld(w0) /\ callbacks' = Append(callbacks, id)

\* editor.runCallbacks up to its await (svgedit.js:4041-4051): the map runs
\* synchronously; if a callback throws, the catch block runs at once.
runCallbacks ==
  LET m == mapCallbacks(World, 1, <<>>)
  IN  IF m.threw
      THEN /\ SetWorld(settleAll(m.w, "rejected"))
           /\ runs' = Append(runs, [n |-> Len(callbacks), res |-> m.res, state |-> "rejected"])
      ELSE /\ SetWorld(m.w)
           /\ runs' = Append(runs, [n |-> Len(callbacks), res |-> m.res, state |-> "awaiting"])

Unsettled == {"pending", "sent", "never"}

\* editor.runCallbacks after its await (svgedit.js:4046-4055): Promise.all
\* rejects with the first rejection and fulfils when every result has.
runCallbacksResume(r) ==
  /\ runs[r].state = "awaiting"
  /\ \/ /\ "rejected" \in Range(runs[r].res)
        /\ SetWorld(settleAll(World, "rejected"))
        /\ runs' = [runs EXCEPT ![r].state = "rejected"]
        /\ UNCHANGED isReady
     \/ /\ \A i \in 1..Len(runs[r].res) : runs[r].res[i] = "fulfilled"
        /\ SetWorld(settleAll(World, "resolved"))
        /\ runs' = [runs EXCEPT ![r].state = "resolved"]
        /\ isReady' = TRUE

\* ---------------------------------------------------------------- initial state
\* The module's top level: no canvas, nothing ready, and one callback already
\* queued by the editor itself (svgedit.js:4168). Handler values are the index
\* of the setCustomHandlers call that supplied them, 0 for the editor's own.
Init ==
  /\ isReady = FALSE
  /\ svgCanvas = "undefined"
  /\ uiStringsLoaded = FALSE
  /\ calls = <<CallbackOf("editor", "ok")>>
  /\ callbacks = <<1>>
  /\ runs = <<>>
  /\ canvasOpen = 0
  /\ bound = [e \in {"saved", "exported", "exportedPDF"} |-> 0]
  /\ customExportImage = 0
  /\ customExportPDF = 0
  /\ showSaveWarning = FALSE
  /\ lastAddExt = [result |-> "none", initRun |-> FALSE, ready |-> FALSE]
  /\ extCalls = <<>>
  /\ extLoads = <<>>
  /\ initPc = "notStarted"
  /\ extensionsAdded = FALSE
  /\ messageQueue = <<>>
  /\ arrivals = <<>>
  /\ canvasMessages = <<>>
  /\ lastMsg = "none"
  /\ mode = "select"
  /\ selectedElement = "null"
  /\ multiselected = FALSE
  /\ undoStackSize = 0
  /\ redoStackSize = 0
  /\ undoDisabled = TRUE
  /\ redoDisabled = TRUE
  /\ ucp = "none"

\* ---------------------------------------------------------------- operations on the queue
Behaviours == {"ok", "throw", "async"}

\* editor.ready(cb) with an arbitrary callback
EditorReady(beh) ==
  /\ UserCalls < MaxCalls
  /\ ready(CallbackOf("user", beh))
  /\ UNCHANGED <<isReady, runs, canvasVars, extVars, msgVars, panelVars>>

\* editor.runCallbacks() is called
RunCallbacks ==
  /\ runCallbacks
  /\ UNCHANGED <<isReady, callbacks, canvasVars, extVars, msgVars, panelVars>>

\* a runCallbacks call continues after its await
RunCallbacksResume ==
  \E r \in 1..Len(runs) :
    /\ runCallbacksResume(r)
    /\ UNCHANGED <<callbacks, canvasVars, extVars, msgVars, panelVars>>

\* the promise an arbitrary callback returned settles
SettleCallback ==
  \E to \in {"fulfilled", "rejected"} :
    \/ \E r \in 1..Len(runs) : \E i \in 1..Len(runs[r].res) :
         /\ runs[r].res[i] = "pending"
         /\ runs' = [runs EXCEPT ![r].res[i] = to]
         /\ UNCHANGED <<isReady, calls, callbacks, handlerVars, canvasVars, extVars,
                        msgVars, panelVars>>
    \/ \E c \in 1..Len(calls) :
         /\ calls[c].readyAtCall /\ calls[c].kind = "cb" /\ calls[c].promise = "pending"
         /\ SetWorld(resolveWith(World, c, to))
         /\ UNCHANGED <<isReady, callbacks, runs, canvasVars, extVars, msgVars, panelVars>>

\* ---------------------------------------------------------------- load entry points
\* editor.loadFromString (svgedit.js:4065)
LoadFromString(good, noAlert) ==
  /\ UserCalls < MaxLoads
  /\ ready(NewCall("user", "str", "ok", good, noAlert, "none", {}))
  /\ UNCHANGED <<isReady, runs, canvasVars, extVars, msgVars, panelVars>>

\* editor.loadFromURL (svgedit.js:4092)
LoadFromURL(noAlert) ==
  /\ UserCalls < MaxLoads
  /\ ready(NewCall("user", "url", "ok", TRUE, noAlert, "none", {}))
  /\ UNCHANGED <<isReady, runs, canvasVars, extVars, msgVars, panelVars>>

\* editor.loadFromDataURI (svgedit.js:4132); prefix is what the two regular
\* expressions find at the start of str: "base64" (data:image/svg+xml;base64,),
\* "utf8" (data:image/svg+xml, with an optional ; or ;utf8) or "none".
LoadFromDataURI(prefix, good, noAlert) ==
  /\ UserCalls < MaxLoads
  /\ ready(NewCall("user", "datauri", "ok", good, noAlert, prefix, {}))
  /\ UNCHANGED <<isReady, runs, canvasVars, extVars, msgVars, panelVars>>

\* The handlers $.ajax runs when the request of call c ends (svgedit.js:4102-4116):
\* success and an error that carries a response text hand the text to
\* loadSvgString and leave the promise alone (a throw inside a jQuery handler
\* is not the promise's); any other error rejects under noAlert and otherwise
\* alerts and resolves.
ajaxHandlers(w, c, how, good) ==
  LET noAlert == w.calls[c].noAlert
      w1 == [w EXCEPT !.calls[c].ajax = how]
  IN  IF how \in {"success", "errorText"}
      THEN [w |-> loadSvgString(w1, c, good, noAlert).w, out |-> "never"]
      ELSE IF noAlert THEN [w |-> w1, out |-> "rejected"]
      ELSE [w |-> [w1 EXCEPT !.calls[c].alerts = @ + 1], out |-> "fulfilled"]

AjaxOutcomes ==
  {<<"success", TRUE>>, <<"success", FALSE>>, <<"errorText", TRUE>>,
   <<"errorText", FALSE>>, <<"error", FALSE>>}

\* an Ajax request ends
AjaxComplete ==
  \E o \in AjaxOutcomes :
    \/ \E r \in 1..Len(runs) : \E i \in 1..Len(runs[r].res) :
         /\ runs[r].res[i] = "sent"
         /\ LET a == ajaxHandlers(World, callbacks[i], o[1], o[2])
            IN  /\ SetWorld(a.w)
                /\ runs' = [runs EXCEPT ![r].res[i] = a.out]
         /\ UNCHANGED <<isReady, callbacks, canvasVars, extVars, msgVars, panelVars>>
    \/ \E c \in 1..Len(calls) :
         /\ calls[c].readyAtCall /\ calls[c].ajax = "sent"
         /\ LET a == ajaxHandlers(World, c, o[1], o[2])
            IN  SetWorld(resolveWith(a.w, c, a.out))
         /\ UNCHANGED <<isReady, callbacks, runs, canvasVars, extVars, msgVars, panelVars>>

\* ---------------------------------------------------------------- handlers and extensions
\* editor.setCustomHandlers(opts) (svgedit.js:179)
SetCustomHandlers(opts) ==
  /\ UserCalls < MaxHandlerCalls
  /\ ready(NewCall("user", "handlers", "ok", TRUE, FALSE, "none", opts))
  /\ UNCHANGED <<isReady, runs, canvasVars, extVars, msgVars, panelVars>>

\* addExtension waiting for the editor to be ready as well
addExtensionNeedsReady(name) ==
  IF svgCanvas = "undefined" \/ ~isReady THEN "threw" ELSE "delegated"

\* editor.addExtension (svgedit.js:4157): how the call ends
addExtension(name) ==
  IF svgCanvas = "undefined" THEN "threw" ELSE "delegated"

ExtNames == {"ext-a", "ext-b"}

\* editor.addExtension(name, init, initArgs) is called; lastAddExt keeps how it
\* ended, whether init had run and whether the editor was ready.
AddExtension(name) ==
  /\ Len(extCalls) < MaxExt
  /\ lastAddExt' = [result |-> addExtension(name), initRun |-> initPc # "notStarted",
                    ready |-> isReady]
  /\ extCalls' = IF addExtension(name) = "delegated" THEN Append(extCalls, name)
                 ELSE extCalls
  /\ UNCHANGED <<extLoads, readyVars, handlerVars, canvasVars, msgVars, panelVars>>

\* ---------------------------------------------------------------- init
\* editor.init (svgedit.js:209-4015), run once: it creates the canvas (365),
\* binds the editor's own handlers (1674-1710), hands its tool-selecting
\* callback to ready (3644) and starts extAndLocaleFunc (4014), which runs up
\* to its first await.
EditorInit ==
  /\ initPc = "notStarted"
  /\ svgCanvas' = "canvas"
  /\ initPc' = "locale"
  /\ LET id == Len(calls) + 1
         rec == [CallbackOf("editor", "ok") EXCEPT !.readyAtCall = isReady,
                                                   !.runsAtCall = Len(runs)]
         fresh == [e \in {"saved", "exported", "exportedPDF"} |-> 0]
     IN  /\ bound' = fresh
         /\ canvasOpen' = 0
         /\ IF isReady
            THEN /\ calls' = Append(calls, [rec EXCEPT !.invoked = 1, !.promise = "resolved"])
                 /\ UNCHANGED callbacks
            ELSE /\ calls' = Append(calls, rec)
                 /\ callbacks' = Append(callbacks, id)
  /\ UNCHANGED <<isReady, runs, uiStringsLoaded, customExportImage, customExportPDF,
                 showSaveWarning, extVars, msgVars, panelVars>>

\* extAndLocaleFunc after putLocale (svgedit.js:251-258): setLang extends
\* uiStrings with the locale's strings when it is given any; without them the
\* destructuring of uiStrings.common throws and the function ends rejected.
LocaleLoadedWith(nStd, nUser) ==
  /\ initPc = "locale"
  /\ \E langData \in BOOLEAN :
       IF langData
       THEN /\ uiStringsLoaded' = TRUE
            /\ initPc' = "extensions"
            /\ extLoads' = [i \in 1..(nStd + nUser) |->
                              [user |-> i > nStd,
                               st |-> IF i > nStd THEN "idle" ELSE "importing"]]
       ELSE UNCHANGED <<uiStringsLoaded, extLoads>> /\ initPc' = "failed"
  /\ UNCHANGED <<readyVars, handlerVars, svgCanvas, lastAddExt, extCalls, msgVars, panelVars>>

\* the same with no extension configured
LocaleLoaded == LocaleLoadedWith(0, 0)

\* The states in which the promise of one extension's async loader
\* (svgedit.js:262-280, 285-303) has fulfilled.
LoadedOrCaught == {"loaded", "failed"}

\* the name an extension is handed to addExtension under
ExtName(i) == IF extLoads[i].user THEN "ext-b" ELSE "ext-a"

\* The import() of extension i settles (svgedit.js:273-275, 296-298). A
\* failed import is caught by the loader's own catch (276, 299), and so is a
\* throw of editor.addExtension; otherwise the loader returns, without
\* awaiting it, the promise of svgCanvas.addExtension.
ImportSettles(i, ok) ==
  /\ i \in 1..Len(extLoads)
  /\ extLoads[i].st = "importing"
  /\ IF ~ok
     THEN /\ extLoads' = [extLoads EXCEPT ![i].st = "failed"]
          /\ UNCHANGED <<lastAddExt, extCalls>>
     ELSE /\ lastAddExt' = [result |-> addExtension(ExtName(i)),
                            initRun |-> initPc # "notStarted", ready |-> isReady]
          /\ IF addExtension(ExtName(i)) = "threw"
             THEN /\ extLoads' = [extLoads EXCEPT ![i].st = "failed"]
                  /\ UNCHANGED extCalls
             ELSE /\ extLoads' = [extLoads EXCEPT ![i].st = "adding"]
                  /\ extCalls' = Append(extCalls, ExtName(i))
  /\ UNCHANGED <<readyVars, handlerVars, canvasVars, msgVars, panelVars>>

\* The promise svgCanvas.addExtension returned for extension i (svgedit.js:4155,
\* 4163) settles; the loader's promise follows it, and its rejection is
\* outside the loader's try block, which has already returned (275, 298).
AddSettles(i, ok) ==
  /\ i \in 1..Len(extLoads)
  /\ extLoads[i].st = "adding"
  /\ extLoads' = [extLoads EXCEPT ![i].st = IF ok THEN "loaded" ELSE "rejected"]
  /\ UNCHANGED <<lastAddExt, extCalls, readyVars, handlerVars, canvasVars, msgVars, panelVars>>

\* extAndLocaleFunc after its first Promise.all (svgedit.js:261-283): every
\* standard loader has fulfilled, and the user extensions' imports start.
StandardExtensionsLoaded ==
  /\ initPc = "extensions"
  /\ \A i \in 1..Len(extLoads) : ~extLoads[i].user => extLoads[i].st \in LoadedOrCaught
  /\ \E i \in 1..Len(extLoads) : extLoads[i].st = "idle"
  /\ extLoads' = [i \in 1..Len(extLoads) |->
                    IF extLoads[i].st = "idle" THEN [extLoads[i] EXCEPT !.st = "importing"]
                    ELSE extLoads[i]]
  /\ UNCHANGED <<lastAddExt, extCalls, readyVars, handlerVars, canvasVars, msgVars, panelVars>>

\* A Promise.all of extAndLocaleFunc rejects with the first loader that
\* rejects, and the outer catch logs the error (svgedit.js:335-338): the
\* function ends there.
ExtensionLoadRejected ==
  /\ initPc = "extensions"
  /\ \E i \in 1..Len(extLoads) : extLoads[i].st = "rejected"
  /\ initPc' = "caught"
  /\ UNCHANGED <<svgCanvas, uiStringsLoaded, readyVars, handlerVars, extVars, msgVars, panelVars>>

\* the 'extensions_added' handler without its messageQueue.forEach
extensionsAddedHandlerDropsQueue ==
  /\ extensionsAdded' = TRUE
  /\ UNCHANGED <<canvasMessages, messageQueue, arrivals, lastMsg>>

\* The handler init binds to 'extensions_added' (svgedit.js:314-333)
extensionsAddedHandler ==
  /\ extensionsAdded' = TRUE
  /\ canvasMessages' = canvasMessages \o messageQueue
  /\ UNCHANGED <<messageQueue, arrivals, lastMsg>>

\* extAndLocaleFunc once both Promise.all have fulfilled (svgedit.js:306-334):
\* it binds the handler and fires 'extensions_added'.
ExtensionsAdded ==
  /\ initPc = "extensions"
  /\ \A i \in 1..Len(extLoads) : extLoads[i].st \in LoadedOrCaught
  /\ initPc' = "done"
  /\ extensionsAddedHandler
  /\ UNCHANGED <<readyVars, handlerVars, svgCanvas, uiStringsLoaded, extVars, panelVars>>

\* ---------------------------------------------------------------- messages
\* {data, origin} of a message event
Messages == [data : {"d1", "d2"}, origin : {"o1", "o2"}]

\* messageListener (svgedit.js:4181)
messageListener(m) ==
  IF ~extensionsAdded
  THEN /\ messageQueue' = Append(messageQueue, m)
       /\ lastMsg' = "queued"
       /\ UNCHANGED canvasMessages
  ELSE /\ canvasMessages' = Append(canvasMessages, m)
       /\ lastMsg' = "forwarded"
       /\ UNCHANGED messageQueue

\* a window 'message' event
WindowMessage(m) ==
  /\ Len(arrivals) < MaxMsgs
  /\ arrivals' = Append(arrivals, m)
  /\ messageListener(m)
  /\ UNCHANGED <<extensionsAdded, readyVars, handlerVars, canvasVars, extVars, panelVars>>

\* ---------------------------------------------------------------- context panel
Modes == {"select", "pathedit", "rect"}

\* updateContextPanel (svgedit.js:374-573), as far as the history buttons go.
\* sel, md, multi, us, rs are selectedElement, the canvas mode, multiselected
\* and the two stack sizes when it is called. An element without a parent node
\* counts as none (377); with an element and the canvas in 'pathedit' the
\* function returns from the node branch (463) before it reaches the history
\* buttons (557-558).
updateContextPanel(sel, md, multi, us, rs) ==
  LET elem == IF sel = "detached" THEN "null" ELSE sel
  IN  IF elem # "null" /\ md = "pathedit"
      THEN /\ ucp' = "returnedFromNodeBranch"
           /\ UNCHANGED <<undoDisabled, redoDisabled>>
      ELSE /\ ucp' = "reachedEnd"
           /\ undoDisabled' = (us = 0)
           /\ redoDisabled' = (rs = 0)

\* the canvas changes mode (svgCanvas.setMode, pathActions.toEditMode, ...)
CanvasSetMode(m) ==
  /\ svgCanvas = "canvas"
  /\ m # mode
  /\ mode' = m
  /\ ucp' = "none"
  /\ UNCHANGED <<selectedElement, multiselected, undoStackSize, redoStackSize,
                 undoDisabled, redoDisabled, readyVars, handlerVars, canvasVars,
                 extVars, msgVars>>

\* selectedChanged (svgedit.js:1270), the handler of the canvas' 'selected'
\* event; n is the number of elements the event carries.
SelectedChanged(n) ==
  /\ svgCanvas = "canvas"
  /\ LET isNode == mode = "pathedit"
         sel1 == IF n = 1 THEN "attached" ELSE "null"
         multi1 == n >= 2
         \* togglePathEditMode (svgedit.js:655)
         multi2 == IF isNode THEN FALSE ELSE multi1
         sel2 == IF isNode /\ n > 0 THEN "attached" ELSE sel1
     IN  /\ selectedElement' = sel2
         /\ multiselected' = multi2
         /\ updateContextPanel(sel2, mode, multi2, undoStackSize, redoStackSize)
  /\ UNCHANGED <<mode, undoStackSize, redoStackSize, readyVars, handlerVars, canvasVars,
                 extVars, msgVars>>

\* elementChanged (svgedit.js:1338), the handler of the canvas' 'changed'
\* event. sel is selectedElement when it is called; a selected element that
\* has left the document is replaced by the changed element (1357-1360).
elementChanged(sel, us, rs) ==
  LET sel1 == IF sel = "detached" THEN "attached" ELSE sel
  IN  /\ selectedElement' = sel1
      /\ showSaveWarning' = TRUE
      /\ updateContextPanel(sel1, mode, multiselected, us, rs)

\* the canvas fires 'changed' for a change that adds nothing to its history
CanvasFiresChanged ==
  /\ svgCanvas = "canvas"
  /\ elementChanged(selectedElement, undoStackSize, redoStackSize)
  /\ UNCHANGED <<mode, multiselected, undoStackSize, redoStackSize, readyVars, canvasOpen,
                 bound, customExportImage, customExportPDF, canvasVars, extVars, msgVars>>

\* the canvas records a change in its history and fires 'changed'; the change
\* may have removed the selected element from the document.
CanvasChanged(removes) ==
  /\ svgCanvas = "canvas"
  /\ undoStackSize < MaxHist
  /\ undoStackSize' = undoStackSize + 1
  /\ redoStackSize' = 0
  /\ elementChanged(IF removes /\ selectedElement = "attached" THEN "detached"
                    ELSE selectedElement, undoStackSize + 1, 0)
  /\ UNCHANGED <<mode, multiselected, readyVars, canvasOpen, bound, customExportImage,
                 customExportPDF, canvasVars, extVars, msgVars>>

\* clickUndo (svgedit.js:2684); fires says whether the canvas' undo manager
\* announces the undone command with a 'changed' event.
ClickUndo(fires) ==
  /\ svgCanvas = "canvas"
  /\ undoStackSize > 0
  /\ undoStackSize' = undoStackSize - 1
  /\ redoStackSize' = redoStackSize + 1
  /\ IF fires
     THEN elementChanged(selectedElement, undoStackSize - 1, redoStackSize + 1)
     ELSE /\ ucp' = "none"
          /\ UNCHANGED <<selectedElement, showSaveWarning, undoDisabled, redoDisabled>>
  /\ UNCHANGED <<mode, multiselected, readyVars, canvasOpen, bound, customExportImage,
                 customExportPDF, canvasVars, extVars, msgVars>>

\* clickRedo (svgedit.js:2695)
ClickRedo(fires) ==
  /\ svgCanvas = "canvas"
  /\ redoStackSize > 0
  /\ redoStackSize' = redoStackSize - 1
  /\ undoStackSize' = undoStackSize + 1
  /\ IF fires
     THEN elementChanged(selectedElement, undoStackSize + 1, redoStackSize - 1)
     ELSE /\ ucp' = "none"
          /\ UNCHANGED <<selectedElement, showSaveWarning, undoDisabled, redoDisabled>>
  /\ UNCHANGED <<mode, multiselected, readyVars, canvasOpen, bound, customExportImage,
                 customExportPDF, canvasVars, extVars, msgVars>>

\* ---------------------------------------------------------------- specifications
\* ready and runCallbacks with arbitrary callbacks
NextReady ==
  \/ \E beh \in Behaviours : EditorReady(beh)
  \/ Len(runs) < MaxRuns /\ RunCallbacks
  \/ RunCallbacksResume
  \/ SettleCallback

SpecReady == Init /\ [][NextReady]_vars

\* loadFromString, on top of init and runCallbacks
NextLoadString ==
  \/ EditorInit
  \/ LocaleLoaded
  \/ Len(runs) < MaxLoadRuns /\ RunCallbacks
  \/ RunCallbacksResume
  \/ \E good \in BOOLEAN, noAlert \in BOOLEAN : LoadFromString(good, noAlert)

SpecLoadString == Init /\ [][NextLoadString]_vars

\* loadFromURL, on top of init and runCallbacks
NextLoadURL ==
  \/ EditorInit
  \/ LocaleLoaded
  \/ Len(runs) < MaxLoadRuns /\ RunCallbacks
  \/ RunCallbacksResume
  \/ \E noAlert \in BOOLEAN : LoadFromURL(noAlert)
  \/ AjaxComplete

SpecLoadURL == Init /\ [][NextLoadURL]_vars

\* The data URIs tried: <<prefix, the canvas accepts the decoded string, noAlert>>;
\* a string with neither prefix never reaches the canvas.
DataURIs ==
  ({"base64", "utf8"} \X BOOLEAN \X BOOLEAN) \cup ({"none"} \X {FALSE} \X BOOLEAN)

\* loadFromDataURI, on top of init and runCallbacks
NextLoadDataURI ==
  \/ EditorInit
  \/ LocaleLoaded
  \/ Len(runs) < MaxLoadRuns /\ RunCallbacks
  \/ RunCallbacksResume
  \/ \E u \in DataURIs : LoadFromDataURI(u[1], u[2], u[3])

SpecLoadDataURI == Init /\ [][NextLoadDataURI]_vars

\* addExtension, on top of init and runCallbacks
NextExtensions ==
  \/ EditorInit
  \/ Len(runs) < MaxRuns /\ RunCallbacks
  \/ RunCallbacksResume
  \/ \E name \in ExtNames : AddExtension(name)

SpecExtensions == Init /\ [][NextExtensions]_vars

\* The opts objects tried, by the handlers they hold.
HandlerOpts ==
  {{}, {"open"}, {"save"}, {"exportImage"}, {"exportPDF"}, {"open", "save"}, HandlerNames}

\* setCustomHandlers, on top of init, runCallbacks and the canvas' 'changed' event
NextHandlers ==
  \/ EditorInit
  \/ Len(runs) < MaxLoadRuns /\ RunCallbacks
  \/ RunCallbacksResume
  \/ \E opts \in HandlerOpts : SetCustomHandlers(opts)
  \/ CanvasFiresChanged

SpecHandlers == Init /\ [][NextHandlers]_vars

\* the window's messages and init's 'extensions_added'
NextMessages ==
  \/ EditorInit
  \/ LocaleLoaded
  \/ ExtensionsAdded
  \/ \E m \in Messages : WindowMessage(m)

SpecMessages == Init /\ [][NextMessages]_vars

\* the canvas' events and the history buttons
NextPanel ==
  \/ EditorInit
  \/ \E m \in Modes : CanvasSetMode(m)
  \/ \E n \in 0..2 : SelectedChanged(n)
  \/ \E removes \in BOOLEAN : CanvasChanged(removes)
  \/ CanvasFiresChanged
  \/ \E fires \in BOOLEAN : ClickUndo(fires)
  \/ \E fires \in BOOLEAN : ClickRedo(fires)

SpecPanel == Init /\ [][NextPanel]_vars

\* init's loading of the configured extensions
NextExtLoad ==
  \/ EditorInit
  \/ \E nStd \in 0..MaxStd, nUser \in 0..MaxUser : LocaleLoadedWith(nStd, nUser)
  \/ \E i \in 1..(MaxStd + MaxUser), ok \in BOOLEAN : ImportSettles(i, ok)
  \/ \E i \in 1..(MaxStd + MaxUser), ok \in BOOLEAN : AddSettles(i, ok)
  \/ StandardExtensionsLoaded
  \/ ExtensionLoadRejected
  \/ ExtensionsAdded

SpecExtLoad == Init /\ [][NextExtLoad]_vars

\* every operation
Next ==
  \/ NextReady
  \/ NextLoadString
  \/ NextLoadURL
  \/ NextLoadDataURI
  \/ NextExtensions
  \/ NextHandlers
  \/ NextMessages
  \/ NextPanel
  \/ NextExtLoad

Spec == Init /\ [][Next]_vars


\* ---------------------------------------------------------------- claims C1-C3
Queued(c) == c \in Range(callbacks)

UserCallIds == {c \in 1..Len(calls) : calls[c].by = "user"}

\* C1: ready(cb) invokes cb during the call when the editor is ready (a
\* runCallbacks call has completed successfully) and does not queue it;
\* otherwise it queues cb, and cb is not invoked before runCallbacks is called
\* again.
C1_ReadyInvokesNowOrQueues ==
  \A c \in UserCallIds :
    IF calls[c].readyAtCall
    THEN calls[c].invoked = 1 /\ ~Queued(c)
    ELSE Queued(c) /\ (calls[c].invoked > 0 => Len(runs) > calls[c].runsAtCall)

C1_Witness ==
  \E c, d \in UserCallIds :
    /\ calls[c].readyAtCall /\ calls[c].invoked = 1
    /\ ~calls[d].readyAtCall /\ calls[d].invoked = 0 /\ Len(runs) > 0

\* C2: the promise ready(cb) returned is resolved only when cb and every
\* callback queued before it have been invoked, also for a ready(cb) call made
\* while runCallbacks awaits the callbacks queued earlier.
C2_ResolvedOnlyAfterInvoked ==
  \A c \in UserCallIds :
    calls[c].promise = "resolved" =>
      \A d \in 1..c : (d = c \/ Queued(d)) => calls[d].invoked > 0

\* C3: runCallbacks invokes every callback that was queued when it was called;
\* when it has resolved the editor is ready and every one of their promises is
\* resolved; when it has rejected every one of their promises is rejected, and
\* the editor is not ready unless another runCallbacks call resolved.
C3_RunCallbacksOutcome ==
  \A r \in 1..Len(runs) :
    /\ Len(runs[r].res) = runs[r].n
    /\ (runs[r].state = "resolved" =>
          (isReady /\ \A i \in 1..runs[r].n : calls[callbacks[i]].promise = "resolved"))
    /\ (runs[r].state = "rejected" =>
          ((\A i \in 1..runs[r].n : calls[callbacks[i]].promise = "rejected")
           /\ ((\A q \in 1..Len(runs) : runs[q].state # "resolved") => ~isReady)))


\* ---------------------------------------------------------------- claims C4-C6
CallsOf(kind) == {c \in 1..Len(calls) : calls[c].kind = kind}

AjaxEnded(c) == calls[c].ajax \in {"success", "errorText", "error"}

\* C5: once the editor is ready and the Ajax request of a loadFromURL call has
\* completed, the promise has settled: resolved when the fetched SVG loaded,
\* rejected when the canvas refused it under noAlert.
C5_SettlesAfterAjax ==
  \A c \in CallsOf("url") :
    (isReady /\ AjaxEnded(c)) =>
      /\ calls[c].promise # "pending"
      /\ calls[c].loadRes = "loaded" => calls[c].promise = "resolved"
      /\ (calls[c].loadRes = "refused" /\ calls[c].noAlert) => calls[c].promise = "rejected"

\* C6 as stated: for every loadFromDataURI call, once the decoded string has
\* loaded the promise is not rejected, and once the canvas has refused it
\* under noAlert the promise is not resolved.
C6_AsStated ==
  \A c \in CallsOf("datauri") :
    /\ calls[c].loadRes = "loaded" => calls[c].promise # "rejected"
    /\ (calls[c].loadRes = "refused" /\ calls[c].noAlert) => calls[c].promise # "resolved"

\* C6 amended: for a loadFromDataURI call made once the editor is ready, the
\* promise is resolved when the decoded string loads and rejected when the
\* canvas refuses it and noAlert is enabled.
C6_WhenReady ==
  \A c \in CallsOf("datauri") :
    calls[c].readyAtCall =>
      /\ calls[c].loadRes = "loaded" => calls[c].promise = "resolved"
      /\ (calls[c].loadRes = "refused" /\ calls[c].noAlert) => calls[c].promise = "rejected"

C6_Witness ==
  \E c, d \in CallsOf("datauri") :
    /\ calls[c].readyAtCall /\ calls[c].loadRes = "loaded" /\ calls[c].promise = "resolved"
    /\ calls[d].readyAtCall /\ calls[d].loadRes = "refused" /\ calls[d].noAlert
    /\ calls[d].promise = "rejected"


\* ---------------------------------------------------------------- claims C7-C10
\* C7: addExtension throws 'Extension added too early' exactly when it is
\* called before init has created the canvas; once init has run it hands the
\* extension to the canvas, whether or not the editor is ready.
C7_ThrowsIffBeforeInit ==
  lastAddExt.result # "none" =>
    /\ (lastAddExt.result = "threw") <=> ~lastAddExt.initRun
    /\ lastAddExt.initRun => (lastAddExt.result = "delegated" /\ Len(extCalls) > 0)

C7_Witness ==
  /\ lastAddExt.result = "delegated"
  /\ ~lastAddExt.ready
  /\ Len(extCalls) > 0

\* The canvas binding each handler name of setCustomHandlers stands for.
Binding(name) ==
  CASE name = "open" -> canvasOpen
    [] name = "save" -> bound["saved"]
    [] name = "exportImage" -> bound["exported"]
    [] OTHER -> bound["exportedPDF"]

Max(S) == CHOOSE x \in S : \A y \in S : y <= x

\* The callback of setCustomHandlers call c runs in this step.
HandlerRan(c) ==
  /\ calls'[c].kind = "handlers"
  /\ calls'[c].invoked > (IF c <= Len(calls) THEN calls[c].invoked ELSE 0)

\* setCustomHandlers runs its callback in the call itself when the editor is
\* ready, and otherwise only in a step that calls runCallbacks.
HandlersTiming ==
  /\ \A c \in 1..Len(calls') :
       HandlerRan(c) =>
         IF calls'[c].readyAtCall THEN c > Len(calls) ELSE Len(runs') > Len(runs)
  /\ (Len(calls') > Len(calls) /\ calls'[Len(calls')].kind = "handlers") =>
       (HandlerRan(Len(calls')) <=> isReady)

\* Each binding ends the step as the handler of the last callback run that
\* supplies it, or unchanged if none does; a supplied save handler leaves
\* showSaveWarning false.
HandlersInstalled ==
  /\ \A name \in HandlerNames :
       LET S == {c \in 1..Len(calls') : HandlerRan(c) /\ name \in calls'[c].opts}
       IN  Binding(name)' = IF S = {} THEN Binding(name) ELSE Max(S)
  /\ (\E c \in 1..Len(calls') : HandlerRan(c) /\ "save" \in calls'[c].opts) =>
       showSaveWarning' = FALSE

\* C8 as stated: setCustomHandlers installs the supplied handlers when the
\* editor is ready (in the call if it is, otherwise when runCallbacks runs its
\* callback), installs only those present in opts, leaves the other bindings
\* as they are, and a save handler sets showSaveWarning to false.
C8_AsStated == [][HandlersTiming /\ HandlersInstalled]_vars

\* C8 amended: the same, for callbacks that run once init has created the
\* canvas.
C8_WithCanvas == [][HandlersTiming /\ (svgCanvas = "canvas" => HandlersInstalled)]_vars

C8_Witness ==
  \E c, d \in CallsOf("handlers") :
    /\ canvasOpen = c /\ ~calls[c].readyAtCall
    /\ bound["saved"] = d /\ calls[d].readyAtCall /\ "open" \notin calls[d].opts
    /\ bound["exported"] = 0
    /\ ~showSaveWarning /\ ucp # "none"

\* C9: until 'extensions_added' fires no message is forwarded to the canvas and
\* every message received is in the queue; from then on the canvas has been
\* sent every message received, in the order of arrival, the queued ones
\* first, and a new message is forwarded at once.
C9_MessagesForwardedInOrder ==
  /\ ~extensionsAdded =>
       (canvasMessages = <<>> /\ messageQueue = arrivals /\ lastMsg # "forwarded")
  /\ extensionsAdded =>
       (canvasMessages = arrivals
        /\ messageQueue = SubSeq(arrivals, 1, Len(messageQueue))
        /\ (Len(arrivals) > Len(messageQueue) => lastMsg = "forwarded"))

C9_Witness ==
  /\ extensionsAdded
  /\ Len(messageQueue) = 2
  /\ messageQueue[1] # messageQueue[2]
  /\ Len(canvasMessages) = 3

\* C10: whenever updateContextPanel has completed, in every canvas mode, the
\* undo button is disabled exactly when the undo stack is empty and the redo
\* button exactly when the redo stack is empty.
C10_HistoryButtonsInStep ==
  ucp # "none" =>
    /\ undoDisabled = (undoStackSize = 0)
    /\ redoDisabled = (redoStackSize = 0)


\* ---------------------------------------------------------------- claim C11
\* extAndLocaleFunc has nothing left to do and no extension is still loading.
LoaderAtRest ==
  /\ initPc \in {"done", "caught"}
  /\ \A i \in 1..Len(extLoads) : extLoads[i].st \notin {"importing", "adding"}

\* C11: an extension is imported only once the locale has been loaded and
\* set; a failure to import or initialise one extension prevents neither the
\* loading of the others nor 'extensions_added' (once the loader is at rest
\* every configured extension has been tried and the event has fired); and
\* the event fires only when the loading of every standard and user extension
\* has settled.
C11_ExtensionLifecycle ==
  /\ \A i \in 1..Len(extLoads) : extLoads[i].st # "idle" => uiStringsLoaded
  /\ LoaderAtRest =>
       (extensionsAdded /\ \A i \in 1..Len(extLoads) : extLoads[i].st # "idle")
  /\ extensionsAdded =>
       \A i \in 1..Len(extLoads) : extLoads[i].st \in {"loaded", "failed", "rejected"}

====
